---- MODULE Spec2Model ----
(***************************************************************************)
(* Model of the roulette game server (server.js: the socket.io handlers    *)
(* join, setWeight, dealerLogin, disconnect, select, openBets, closeBets,  *)
(* spin, the emitLeaderboard compositor and the users.txt loader).         *)
(*                                                                         *)
(* JavaScript values are records [t, n, s]: t is the typeof-like tag,      *)
(* n the numeric value of a number, s the characters of a string (a        *)
(* sequence of one-character strings).  Every value has all three fields   *)
(* so that any two values can be compared.                                 *)
(***************************************************************************)
EXTENDS Integers, Sequences, FiniteSets, TLC

(***************************************************************************)
(* Bounds of the model.                                                    *)
(***************************************************************************)
\* number of socket ids the server ever hands out (each id is used once)
NumSockets == 2
\* Math.random() and the client seeds are drawn from the grid k / RandDen
RandDen == 10

\* the players at the table of the outcome scenarios, next to the dealer
NumPlayers == 3

Sockets == 1..NumSockets

(***************************************************************************)
(* JavaScript values.                                                      *)
(***************************************************************************)
Num(k) == [t |-> "number", n |-> k, s |-> <<>>]
Str(chars) == [t |-> "string", n |-> 0, s |-> chars]
NaN == [t |-> "NaN", n |-> 0, s |-> <<>>]
Null == [t |-> "null", n |-> 0, s |-> <<>>]
Undefined == [t |-> "undefined", n |-> 0, s |-> <<>>]

\* typeof v
TypeOf(v) ==
  CASE v.t \in {"number", "NaN"} -> "number"
    [] v.t = "string" -> "string"
    [] v.t = "null" -> "object"
    [] OTHER -> "undefined"

\* truthiness of v, as in `if (v)` and `v || w`
Truthy(v) ==
  CASE v.t = "number" -> v.n # 0
    [] v.t = "string" -> v.s # <<>>
    [] OTHER -> FALSE

Digits == <<"0", "1", "2", "3", "4", "5", "6", "7", "8", "9">>

IsDigit(ch) == \E i \in 1..10 : Digits[i] = ch

DigitVal(ch) == (CHOOSE i \in 1..10 : Digits[i] = ch) - 1

Upper ==
  <<"A", "B", "C", "D", "E", "F", "G", "H", "I", "J", "K", "L", "M",
    "N", "O", "P", "Q", "R", "S", "T", "U", "V", "W", "X", "Y", "Z">>

Lower ==
  <<"a", "b", "c", "d", "e", "f", "g", "h", "i", "j", "k", "l", "m",
    "n", "o", "p", "q", "r", "s", "t", "u", "v", "w", "x", "y", "z">>

\* the characters of the model in ascending UTF-16 code unit order
CodeUnits == <<" ">> \o Digits \o Upper \o Lower

CharCode(ch) == CHOOSE i \in 1..Len(CodeUnits) : CodeUnits[i] = ch

\* String.prototype.toLowerCase on one character
LowerCh(ch) ==
  IF \E i \in 1..26 : Upper[i] = ch
    THEN Lower[CHOOSE i \in 1..26 : Upper[i] = ch]
    ELSE ch

ToLowerCase(chars) == [i \in 1..Len(chars) |-> LowerCh(chars[i])]

RECURSIVE TrimLeft(_)
TrimLeft(chars) ==
  IF chars # <<>> /\ Head(chars) = " " THEN TrimLeft(Tail(chars)) ELSE chars

RECURSIVE TrimRight(_)
TrimRight(chars) ==
  IF chars # <<>> /\ chars[Len(chars)] = " "
    THEN TrimRight(SubSeq(chars, 1, Len(chars) - 1))
    ELSE chars

\* String.prototype.trim
Trim(chars) == TrimRight(TrimLeft(chars))

RECURSIVE DecimalValue(_)
DecimalValue(chars) ==
  IF chars = <<>> THEN 0
  ELSE 10 * DecimalValue(SubSeq(chars, 1, Len(chars) - 1)) + DigitVal(chars[Len(chars)])

\* Number(v): a string is trimmed; the empty string is 0, a run of decimal
\* digits is its value, anything else is NaN; null is 0, undefined is NaN.
ToNumber(v) ==
  CASE v.t = "number" -> v
    [] v.t = "NaN" -> NaN
    [] v.t = "null" -> Num(0)
    [] v.t = "string" ->
         LET body == Trim(v.s) IN
           IF \A i \in 1..Len(body) : IsDigit(body[i]) THEN Num(DecimalValue(body)) ELSE NaN
    [] OTHER -> NaN

\* /^\d{6}$/.test(chars)
IsSixDigits(chars) == Len(chars) = 6 /\ \A i \in 1..6 : IsDigit(chars[i])

\* a < b for two strings (comparison by code units, a proper prefix is smaller)
RECURSIVE StrLess(_, _)
StrLess(a, b) ==
  IF b = <<>> THEN FALSE
  ELSE IF a = <<>> THEN TRUE
  ELSE IF Head(a) = Head(b) THEN StrLess(Tail(a), Tail(b))
  ELSE CharCode(Head(a)) < CharCode(Head(b))

(***************************************************************************)
(* Insertion-ordered objects: a sequence of [key, val] with distinct keys. *)
(***************************************************************************)
ObjHas(obj, k) == \E i \in 1..Len(obj) : obj[i].key = k

ObjGet(obj, k) == obj[CHOOSE i \in 1..Len(obj) : obj[i].key = k].val

\* obj[k] = v: an existing key keeps its position, a new key goes last
ObjSet(obj, k, v) ==
  IF ObjHas(obj, k)
    THEN [i \in 1..Len(obj) |-> IF obj[i].key = k THEN [key |-> k, val |-> v] ELSE obj[i]]
    ELSE Append(obj, [key |-> k, val |-> v])

\* delete obj[k]
ObjDelete(obj, k) == SelectSeq(obj, LAMBDA e : e.key # k)

ObjKeys(obj) == {obj[i].key : i \in 1..Len(obj)}

\* delete on a map kept as a function
\* a delete that empties the map
MapDeleteAll(f, k) == [x \in {} |-> 0]

MapDelete(f, k) == [x \in (DOMAIN f) \ {k} |-> f[x]]

\* f[k] = v on a map kept as a function
MapSet(f, k, v) == [x \in (DOMAIN f) \cup {k} |-> IF x = k THEN v ELSE f[x]]

EmptyMap == [x \in {} |-> 0]

(***************************************************************************)
(* users.txt and its loader.  A line is given split at its first comma:    *)
(* code is parts[0].trim(), name the trimmed rest.                         *)
(***************************************************************************)
CodeDealer == <<"1", "0", "0", "0", "0", "1">>
CodeAlice == <<"1", "0", "0", "0", "0", "2">>
CodeNobody == <<"9", "9", "9", "9", "9", "9">>

NameDealer == <<"D", "e", "a", "l", "e", "r">>
NameAlice == <<"a", "l", "i", "c", "e">>
NameUnknown == <<"U", "n", "k", "n", "o", "w", "n">>
NameBob == <<"B", "o", "b">>

\* a users.txt with a Dealer account, one player and one malformed line
UsersFileWithDealer ==
  << [code |-> CodeDealer, name |-> NameDealer],
     [code |-> <<"1", "2">>, name |-> NameBob],
     [code |-> CodeAlice, name |-> NameAlice] >>

\* a users.txt without any user named Dealer
UsersFileNoDealer == << [code |-> CodeAlice, name |-> NameAlice] >>

UsersFiles == {UsersFileWithDealer, UsersFileNoDealer}

\* the lines the loader keeps
ValidLines(file) ==
  SelectSeq(file, LAMBDA ln : IsSixDigits(ln.code) /\ ln.name # <<>>)

LoadUsersOrder(file) ==
  LET v == ValidLines(file) IN [i \in 1..Len(v) |-> v[i].code]

\* usersByCode[code] = name: a later line overwrites an earlier one
LoadUsersByCode(file) ==
  LET v == ValidLines(file) IN
    [c \in {v[i].code : i \in 1..Len(v)} |->
       v[CHOOSE i \in 1..Len(v) :
           v[i].code = c /\ \A j \in (i + 1)..Len(v) : v[j].code # c].name]

LoadUsersStatus(file) ==
  [c \in DOMAIN LoadUsersByCode(file) |-> [connected |-> FALSE, socketId |-> 0]]

\* Object.entries(usersByCode) visits integer-like keys (no leading zero) in
\* ascending numeric order, then the other keys in insertion order; rank of a
\* code in that order
EntriesBefore(file, a, b) ==
  LET order == LoadUsersOrder(file)
      first(c) == CHOOSE i \in 1..Len(order) : order[i] = c /\ \A j \in 1..(i - 1) : order[j] # c
      isIndex(c) == c[1] # "0"
  IN  IF isIndex(a) /\ isIndex(b) THEN DecimalValue(a) < DecimalValue(b)
      ELSE IF isIndex(a) # isIndex(b) THEN isIndex(a)
      ELSE first(a) < first(b)

\* DEALER_CODE: the first entry whose name is "dealer" case-insensitively, or null
DeriveDealerCode(file) ==
  LET byCode == LoadUsersByCode(file)
      named == {c \in DOMAIN byCode : ToLowerCase(byCode[c]) = <<"d", "e", "a", "l", "e", "r">>}
  IN  IF named = {} THEN Null
      ELSE Str(CHOOSE c \in named : \A d \in named \ {c} : EntriesBefore(file, c, d))

(***************************************************************************)
(* The state of the server process.                                        *)
(***************************************************************************)
VARIABLES
  usersByCode,      \* code -> name, from users.txt
  usersOrder,       \* the codes in file order
  DEALER_CODE,      \* the code of the user named Dealer, or null
  usersStatus,      \* code -> [connected, socketId] (socketId 0 is null)
  sockets,          \* socket id -> "idle" (not yet connected), "open", "closed"
  socketData,       \* socket id -> socket.data = [name, code]
  connectedSockets, \* insertion-ordered object: socket id -> [name, code]
  dealerSocket,     \* the dealer's socket id, 0 for null
  betsOpen,
  selections,       \* socket id -> [name, bet]
  weightBySocket,   \* socket id -> weight
  lastSpinResult,   \* [isNull, winningNumber, results]
  spinning,
  timers,           \* pending setTimeout callbacks of spin
  emitted,          \* the messages the most recent handler emitted, in order
  last              \* the most recent handler: [op, id, arg, target, before]

registry == <<usersByCode, usersOrder, DEALER_CODE>>

vars ==
  <<usersByCode, usersOrder, DEALER_CODE, usersStatus, sockets, socketData,
    connectedSockets, dealerSocket, betsOpen, selections, weightBySocket,
    lastSpinResult, spinning, timers, emitted, last>>

NoResult == [isNull |-> TRUE, winningNumber |-> Null, results |-> EmptyMap]

(***************************************************************************)
(* Outbound messages: to = 0 is a broadcast (io.emit), otherwise the one   *)
(* socket the message goes to (socket.emit, io.to(id).emit).               *)
(***************************************************************************)
Msg(ev, to, flag, result, board) ==
  [ev |-> ev, to |-> to, flag |-> flag, result |-> result, board |-> board]

DealerStateMsg(to, b) == Msg("dealerState", to, b, NoResult, <<>>)
BetsStateMsg(to, b) == Msg("betsState", to, b, NoResult, <<>>)
DealerGrantedMsg(to) == Msg("dealerGranted", to, FALSE, NoResult, <<>>)
\* flag is the animate property of the payload
SpinResultMsg(to, res, animate) == Msg("spinResult", to, animate, res, <<>>)
LeaderboardMsg(board) == Msg("leaderboard", 0, FALSE, NoResult, board)

\* the retained result sent with the animate flag
LastResultMsgsAnimated(to, res) ==
  IF res.isNull THEN <<>> ELSE <<SpinResultMsg(to, res, TRUE)>>

\* if (lastSpinResult) emit spinResult to one socket
LastResultMsgs(to, res) ==
  IF res.isNull THEN <<>> ELSE <<SpinResultMsg(to, res, FALSE)>>

(***************************************************************************)
(* emitLeaderboard: the composed, ordered leaderboard.                     *)
(***************************************************************************)
SidKey(sid) == [sid |-> sid, code |-> <<>>]
\* the pseudo-key 'u:' + code
CodeKey(code) == [sid |-> 0, code |-> code]

\* a live row that never shows a bet
LiveRowWithoutBet(name, sid, sel, wts) ==
  [name |-> name, bet |-> Null, connected |-> TRUE,
   weight |-> IF sid \in DOMAIN wts THEN Num(wts[sid]) ELSE Num(1)]

\* the row of a connected socket
LiveRow(name, sid, sel, wts) ==
  [name |-> name,
   bet |-> IF sid \in DOMAIN sel /\ sel[sid].bet # Undefined THEN sel[sid].bet ELSE Null,
   connected |-> TRUE,
   weight |-> IF sid \in DOMAIN wts THEN Num(wts[sid]) ELSE Num(1)]

\* an offline row that shows the default weight
OfflineRowWithWeight(name) ==
  [name |-> name, bet |-> Null, connected |-> FALSE, weight |-> Num(1)]

OfflineRow(name) == [name |-> name, bet |-> Null, connected |-> FALSE, weight |-> Null]

\* the rows of the registered users, in usersOrder
RECURSIVE RegisteredRows(_, _, _, _, _, _, _)
RegisteredRows(ordered, i, order, byCode, status, conns, selwts) ==
  IF i > Len(order) THEN ordered
  ELSE
    LET code == order[i]
        st == status[code]
        live == st.connected /\ st.socketId # 0 /\ ObjHas(conns, st.socketId)
        next ==
          IF live
            THEN ObjSet(ordered, SidKey(st.socketId),
                        LiveRow(Str(byCode[code]), st.socketId, selwts[1], selwts[2]))
            ELSE ObjSet(ordered, CodeKey(code), OfflineRow(Str(byCode[code])))
    IN  RegisteredRows(next, i + 1, order, byCode, status, conns, selwts)

\* a sort key that keeps the capitals
SortNameCaseSensitive(name) == IF Truthy(name) THEN name.s ELSE <<>>

\* (name || '').toLowerCase()
SortName(name) == IF Truthy(name) THEN ToLowerCase(name.s) ELSE <<>>

\* insert e after every element that is not greater than it (a stable sort)
RECURSIVE InsertByName(_, _)
InsertByName(sorted, e) ==
  IF sorted = <<>> THEN <<e>>
  ELSE IF StrLess(SortName(e.val.name), SortName(Head(sorted).val.name))
    THEN <<e>> \o sorted
    ELSE <<Head(sorted)>> \o InsertByName(Tail(sorted), e)

RECURSIVE SortByName(_)
SortByName(entries) ==
  IF entries = <<>> THEN <<>>
  ELSE InsertByName(SortByName(SubSeq(entries, 1, Len(entries) - 1)), entries[Len(entries)])

RECURSIVE GuestRows(_, _, _, _)
GuestRows(ordered, remaining, sel, wts) ==
  IF remaining = <<>> THEN ordered
  ELSE
    LET e == Head(remaining) IN
      GuestRows(ObjSet(ordered, SidKey(e.key), LiveRow(e.val.name, e.key, sel, wts)),
                Tail(remaining), sel, wts)

\* the object emitLeaderboard builds
Compose(order, byCode, status, conns, sel, wts) ==
  LET registered == RegisteredRows(<<>>, 1, order, byCode, status, conns, <<sel, wts>>)
      remaining ==
        SelectSeq(conns, LAMBDA e : ~(Truthy(e.val.code) /\ e.val.code.s \in DOMAIN status))
  IN  GuestRows(registered, SortByName(remaining), sel, wts)

\* a broadcast composed from the ledger the handler started with
emitLeaderboardOfOldLedger(status, conns, sel, wts) ==
  LeaderboardMsg(Compose(usersOrder, usersByCode, status, conns, selections, wts))

emitLeaderboard(status, conns, sel, wts) ==
  LeaderboardMsg(Compose(usersOrder, usersByCode, status, conns, sel, wts))

(***************************************************************************)
(* Start of the process: users.txt is loaded, nothing is connected.        *)
(***************************************************************************)
\* the engine state a handler starts from, kept with the handler in last
Engine ==
  [dealerSocket |-> dealerSocket, betsOpen |-> betsOpen, selections |-> selections,
   weightBySocket |-> weightBySocket, spinning |-> spinning, lastSpinResult |-> lastSpinResult]

\* the payload of spin: an array of numbers k / RandDen (items holds the k),
\* or a value that is no array
Randoms(items) == [isArray |-> TRUE, items |-> items]
NotAnArray == [isArray |-> FALSE, items |-> <<>>]

Handler(op, id, arg, target) ==
  [op |-> op, id |-> id, arg |-> arg, target |-> target,
   randoms |-> NotAnArray, p |-> 0, before |-> Engine]

Init ==
  /\ \E file \in UsersFiles :
       /\ usersByCode = LoadUsersByCode(file)
       /\ usersOrder = LoadUsersOrder(file)
       /\ DEALER_CODE = DeriveDealerCode(file)
       /\ usersStatus = LoadUsersStatus(file)
  /\ sockets = [id \in Sockets |-> "idle"]
  /\ socketData = [id \in Sockets |-> [name |-> Undefined, code |-> Undefined]]
  /\ connectedSockets = <<>>
  /\ dealerSocket = 0
  /\ betsOpen = FALSE
  /\ selections = EmptyMap
  /\ weightBySocket = EmptyMap
  /\ lastSpinResult = NoResult
  /\ spinning = FALSE
  /\ timers = 0
  /\ emitted = <<>>
  /\ last = Handler("start", 0, Undefined, 0)


\* io.on("connection"): a new socket with empty socket.data.  Socket ids are
\* fresh and interchangeable, so they are handed out in ascending order.
Connection(id) ==
  /\ sockets[id] = "idle"
  /\ \A other \in Sockets : other < id => sockets[other] # "idle"
  /\ sockets' = [sockets EXCEPT ![id] = "open"]
  /\ emitted' = <<>>
  /\ last' = Handler("connection", id, Undefined, 0)
  /\ UNCHANGED <<registry, usersStatus, socketData, connectedSockets, dealerSocket,
                 betsOpen, selections, weightBySocket, lastSpinResult, spinning, timers>>

\* the dealer grant shared by join and dealerLogin: the messages it emits
GrantMsgs(id) ==
  <<DealerStateMsg(0, TRUE), DealerGrantedMsg(id), BetsStateMsg(id, betsOpen)>>
    \o LastResultMsgs(id, lastSpinResult)

\* join granting the role without looking at the slot
JoinGrantsPreempting(code) == Truthy(DEALER_CODE) /\ code = DEALER_CODE

\* the condition under which join grants the dealer role
JoinGrants(code) == Truthy(DEALER_CODE) /\ code = DEALER_CODE /\ dealerSocket = 0

\* socket.on("join")
Join(id, identifier) ==
  LET isCode == TypeOf(identifier) = "string" /\ IsSixDigits(identifier.s)
      known == isCode /\ identifier.s \in DOMAIN usersByCode
      grant == known /\ JoinGrants(identifier)
      data ==
        IF known THEN [name |-> Str(usersByCode[identifier.s]), code |-> identifier]
        ELSE IF isCode THEN [socketData[id] EXCEPT !.name = Str(NameUnknown)]
        ELSE [socketData[id] EXCEPT !.name = identifier]
      dealer == IF grant THEN id ELSE dealerSocket
      conns ==
        ObjSet(connectedSockets, id,
               [name |-> data.name, code |-> IF Truthy(data.code) THEN data.code ELSE Null])
      status ==
        IF Truthy(data.code)
          THEN [c \in DOMAIN usersStatus \cup {data.code.s} |->
                  IF c = data.code.s THEN [connected |-> TRUE, socketId |-> id]
                  ELSE usersStatus[c]]
          ELSE usersStatus
  IN
  /\ sockets[id] = "open"
  /\ socketData' = [socketData EXCEPT ![id] = data]
  /\ dealerSocket' = dealer
  /\ connectedSockets' = conns
  /\ usersStatus' = status
  /\ emitted' =
       (IF grant THEN GrantMsgs(id) ELSE <<>>)
       \o <<DealerStateMsg(id, dealer # 0), BetsStateMsg(id, betsOpen)>>
       \o LastResultMsgs(id, lastSpinResult)
       \o <<emitLeaderboard(status, conns, selections, weightBySocket)>>
  /\ last' = Handler("join", id, identifier, 0)
  /\ UNCHANGED <<registry, sockets, betsOpen, selections, weightBySocket,
                 lastSpinResult, spinning, timers>>

\* Math.max(0, Math.min(10, w))
ClampWeight(w) == IF w < 0 THEN 0 ELSE IF w > 10 THEN 10 ELSE w

\* a dealer check that lets everybody through
IsDealerAlways(id) == TRUE

\* a dealer check that lets everybody through while there is no dealer
IsDealerOrNone(id) == id = dealerSocket \/ dealerSocket = 0

\* the dealer check of setWeight, openBets, closeBets and spin
IsDealer(id) == id = dealerSocket

\* socket.on('setWeight'); target 0 stands for a value that is no socket id
SetWeight(id, target, weight) ==
  LET w == ToNumber(weight)
      accepted == IsDealer(id) /\ w # NaN /\ target # 0 /\ ObjHas(connectedSockets, target)
      wts == IF accepted THEN MapSet(weightBySocket, target, ClampWeight(w.n)) ELSE weightBySocket
  IN
  /\ sockets[id] = "open"
  /\ weightBySocket' = wts
  /\ emitted' =
       IF accepted
         THEN <<emitLeaderboard(usersStatus, connectedSockets, selections, wts)>>
         ELSE <<>>
  /\ last' = Handler("setWeight", id, weight, target)
  /\ UNCHANGED <<registry, usersStatus, sockets, socketData, connectedSockets, dealerSocket,
                 betsOpen, selections, lastSpinResult, spinning, timers>>

\* dealerLogin granting the role for any code
LoginGrantsAnyCode(code) == Truthy(DEALER_CODE) /\ dealerSocket = 0

\* the condition under which dealerLogin grants the dealer role
LoginGrants(code) == Truthy(DEALER_CODE) /\ code = DEALER_CODE /\ dealerSocket = 0

\* socket.on("dealerLogin")
DealerLogin(id, code) ==
  /\ sockets[id] = "open"
  /\ dealerSocket' = IF LoginGrants(code) THEN id ELSE dealerSocket
  /\ emitted' = IF LoginGrants(code) THEN GrantMsgs(id) ELSE <<>>
  /\ last' = Handler("dealerLogin", id, code, 0)
  /\ UNCHANGED <<registry, usersStatus, sockets, socketData, connectedSockets, betsOpen,
                 selections, weightBySocket, lastSpinResult, spinning, timers>>

\* a disconnect that closes the window whoever leaves
ReleaseClosingAlways(id) ==
  [dealerSocket |-> IF id = dealerSocket THEN 0 ELSE dealerSocket, betsOpen |-> FALSE]

\* a disconnect of the dealer that leaves the window as it is
ReleaseKeepingWindow(id) ==
  [dealerSocket |-> IF id = dealerSocket THEN 0 ELSE dealerSocket, betsOpen |-> betsOpen]

\* a disconnect that leaves the dealer slot and the window as they are
ReleaseNothing(id) == [dealerSocket |-> dealerSocket, betsOpen |-> betsOpen]

\* what disconnect does to the dealer slot and the window: [dealerSocket, betsOpen]
Release(id) ==
  IF id = dealerSocket
    THEN [dealerSocket |-> 0, betsOpen |-> FALSE]
    ELSE [dealerSocket |-> dealerSocket, betsOpen |-> betsOpen]

\* socket.on("disconnect")
Disconnect(id) ==
  LET code == socketData[id].code
      status ==
        IF Truthy(code) /\ code.s \in DOMAIN usersStatus
          THEN [usersStatus EXCEPT ![code.s] = [connected |-> FALSE, socketId |-> 0]]
          ELSE usersStatus
      conns == ObjDelete(connectedSockets, id)
      sel == MapDelete(selections, id)
  IN
  /\ sockets[id] = "open"
  /\ sockets' = [sockets EXCEPT ![id] = "closed"]
  /\ dealerSocket' = Release(id).dealerSocket
  /\ betsOpen' = Release(id).betsOpen
  /\ selections' = sel
  /\ usersStatus' = status
  /\ connectedSockets' = conns
  /\ emitted' =
       (IF id = dealerSocket THEN <<DealerStateMsg(0, FALSE)>> ELSE <<>>)
       \o <<emitLeaderboard(status, conns, sel, weightBySocket)>>
  /\ last' = Handler("disconnect", id, Undefined, 0)
  /\ UNCHANGED <<registry, socketData, weightBySocket, lastSpinResult, spinning, timers>>

\* a guard of select that forgets the window
SelectAcceptedWhileClosed(id, bet) == id # dealerSocket

\* the guard of select: bets are open and the sender is not the dealer
SelectAccepted(id, bet) == betsOpen /\ id # dealerSocket

\* socket.on("select")
Select(id, bet) ==
  LET sel ==
        IF SelectAccepted(id, bet)
          THEN MapSet(selections, id, [name |-> socketData[id].name, bet |-> bet])
          ELSE selections
  IN
  /\ sockets[id] = "open"
  /\ selections' = sel
  /\ emitted' =
       IF SelectAccepted(id, bet)
         THEN <<emitLeaderboard(usersStatus, connectedSockets, sel, weightBySocket)>>
         ELSE <<>>
  /\ last' = Handler("select", id, bet, 0)
  /\ UNCHANGED <<registry, usersStatus, sockets, socketData, connectedSockets, dealerSocket,
                 betsOpen, weightBySocket, lastSpinResult, spinning, timers>>

\* socket.on("openBets")
OpenBets(id) ==
  /\ sockets[id] = "open"
  /\ betsOpen' = IF IsDealer(id) THEN TRUE ELSE betsOpen
  /\ emitted' = IF IsDealer(id) THEN <<BetsStateMsg(0, TRUE)>> ELSE <<>>
  /\ last' = Handler("openBets", id, Undefined, 0)
  /\ UNCHANGED <<registry, usersStatus, sockets, socketData, connectedSockets, dealerSocket,
                 selections, weightBySocket, lastSpinResult, spinning, timers>>

\* socket.on("closeBets")
CloseBets(id) ==
  /\ sockets[id] = "open"
  /\ betsOpen' = IF IsDealer(id) THEN FALSE ELSE betsOpen
  /\ emitted' = IF IsDealer(id) THEN <<BetsStateMsg(0, FALSE)>> ELSE <<>>
  /\ last' = Handler("closeBets", id, Undefined, 0)
  /\ UNCHANGED <<registry, usersStatus, sockets, socketData, connectedSockets, dealerSocket,
                 selections, weightBySocket, lastSpinResult, spinning, timers>>

(***************************************************************************)
(* The outcome engine of spin.                                             *)
(***************************************************************************)
RedNumbers == {1, 3, 5, 7, 9, 12, 14, 16, 18, 19, 21, 23, 25, 27, 30, 32, 34, 36}

\* isRed(n) and isBlack(n) on a value of type number (NaN included)
isRed(v) == v.t = "number" /\ v.n \in RedNumbers
\* a colour test that takes 0 for black
isBlackWithZero(v) == ~isRed(v)

isBlack(v) == ~(v.t = "number" /\ v.n = 0) /\ ~isRed(v)

RedStr == Str(<<"r", "e", "d">>)
BlackStr == Str(<<"b", "l", "a", "c", "k">>)

\* the normalisation of a stored bet: a numeric string becomes its number,
\* any other string is trimmed and lower-cased
NormalizeBet(bet) ==
  IF TypeOf(bet) = "string"
    THEN IF ToNumber(bet) # NaN THEN ToNumber(bet) ELSE Str(ToLowerCase(Trim(bet.s)))
    ELSE bet

\* typeof bet === 'number' && bet >= 0 && bet <= 36
IsNumericBet(bet) == bet.t = "number" /\ bet.n >= 0 /\ bet.n <= 36

\* bettorsByNumber[n], as a set
bettorsByNumber(sel, n) ==
  {sid \in DOMAIN sel :
     LET bet == NormalizeBet(sel[sid].bet) IN IsNumericBet(bet) /\ bet.n = n}

\* bettorsByColor[color], as a set
bettorsByColor(sel, color) ==
  {sid \in DOMAIN sel :
     LET bet == NormalizeBet(sel[sid].bet) IN ~IsNumericBet(bet) /\ bet = color}

\* weightBySocket[sid] !== undefined ? Number(weightBySocket[sid]) : 1
WeightOf(wts, sid) == IF sid \in DOMAIN wts THEN wts[sid] ELSE 1

RECURSIVE SumOver(_, _, _)
SumOver(S, wts, pos) ==
  IF S = {} THEN 0
  ELSE LET sid == CHOOSE x \in S : TRUE
           w == WeightOf(wts, sid)
       IN  (IF pos THEN (IF w > 0 THEN w ELSE 0) ELSE (IF w >= 2 THEN 1 ELSE 0))
             + SumOver(S \ {sid}, wts, pos)

\* a count that takes every bettor for a high-weight one
HighCountAll(S, wts) == Cardinality(S)

\* the number of bettors of S whose weight is >= 2
HighCount(S, wts) == SumOver(S, wts, FALSE)

\* the sum of the positive weights of the bettors of S
SumPos(S, wts) == SumOver(S, wts, TRUE)

\* the bettors of the colour of n (none for 0)
ColorSids(sel, n) ==
  IF isRed(Num(n)) THEN bettorsByColor(sel, RedStr)
  ELSE IF isBlack(Num(n)) THEN bettorsByColor(sel, BlackStr)
  ELSE {}

\* highWeightNumbers[n] || 0
highWeightNumbers(sel, wts, n) ==
  HighCount(bettorsByNumber(sel, n), wts) + HighCount(ColorSids(sel, n), wts)

\* a weight that never excludes a number
NormalWeightNoExclusion(sel, wts, n) ==
  IF bettorsByNumber(sel, n) = {} /\ ColorSids(sel, n) = {} THEN 1
  ELSE 1 + SumPos(bettorsByNumber(sel, n), wts) + SumPos(ColorSids(sel, n), wts)

\* weights[n] of the normal weighted selection
NormalWeight(sel, wts, n) ==
  LET numericSids == bettorsByNumber(sel, n)
      colorSids == ColorSids(sel, n)
      sumPos == SumPos(numericSids, wts) + SumPos(colorSids, wts)
  IN  IF numericSids = {} /\ colorSids = {} THEN 1
      ELSE IF sumPos <= 0 THEN 0
      ELSE 1 + sumPos

\* the draw weight of n: highWeightNumbers[n] || 0 under the high-weight
\* rule, weights[n] under the normal rule
WeightAt(sel, wts, high, n) ==
  IF high THEN highWeightNumbers(sel, wts, n) ELSE NormalWeight(sel, wts, n)

\* a total that is always 0
TotalFromZero(sel, wts, high, n) == 0

RECURSIVE TotalFrom(_, _, _, _)
\* the sum of the draw weights of n..36
TotalFrom(sel, wts, high, n) ==
  IF n > 36 THEN 0 ELSE WeightAt(sel, wts, high, n) + TotalFrom(sel, wts, high, n + 1)

\* a draw that always stops at 0
DrawLoopStoppingAtZero(sel, wts, high, n, acc, total, p) == 0

RECURSIVE DrawLoop(_, _, _, _, _, _, _)
\* the loop `acc += w / total; if (r <= acc) return n`, from n on, for
\* r = p / RandDen; acc holds the sum of the weights before n; -1 if the loop
\* ends without a hit.  Under the high-weight rule only the keys of
\* highWeightNumbers (the numbers of weight > 0) are visited.
DrawLoop(sel, wts, high, n, acc, total, p) ==
  IF n > 36 THEN -1
  ELSE LET w == WeightAt(sel, wts, high, n) IN
         IF high /\ w = 0 THEN DrawLoop(sel, wts, high, n + 1, acc, total, p)
         ELSE IF p * total <= (acc + w) * RandDen THEN n
         ELSE DrawLoop(sel, wts, high, n + 1, acc + w, total, p)

RECURSIVE SeqSum(_)
SeqSum(seq) == IF seq = <<>> THEN 0 ELSE Head(seq) + SeqSum(Tail(seq))

\* a fallback that ignores the seeds
FloorAvgZero(seeds) == Num(0)

\* Math.floor(avg * 37) for seeds k / RandDen; NaN for an empty seed array
FloorAvg37(seeds) ==
  IF seeds = <<>> THEN NaN ELSE Num((SeqSum(seeds) * 37) \div (Len(seeds) * RandDen))

\* a test for bets that counts cleared entries
AnyBetCountingCleared(sel) == DOMAIN sel # {}

\* anyNumeric || anyColor
AnyBet(sel) ==
  \E sid \in DOMAIN sel :
    LET bet == NormalizeBet(sel[sid].bet) IN
      IsNumericBet(bet) \/ bet = RedStr \/ bet = BlackStr

\* a high-weight test that never finds a high weight
AnyHighNever(sel, wts) == FALSE

\* Object.keys(highWeightNumbers).length > 0
AnyHigh(sel, wts) ==
  \E sid \in DOMAIN sel :
    LET bet == NormalizeBet(sel[sid].bet) IN
      (IsNumericBet(bet) \/ bet = RedStr \/ bet = BlackStr) /\ WeightOf(wts, sid) >= 2

\* the winning number of a spin, for Math.random() = p / RandDen
WinningNumber(sel, wts, seeds, p) ==
  IF ~AnyBet(sel) THEN FloorAvg37(seeds)
  ELSE IF AnyHigh(sel, wts)
    THEN LET n == DrawLoop(sel, wts, TRUE, 0, 0, TotalFrom(sel, wts, TRUE, 0), p) IN
           IF n # -1 THEN Num(n)
           ELSE Num(CHOOSE k \in 0..36 :
                      /\ highWeightNumbers(sel, wts, k) > 0
                      /\ \A m \in 0..(k - 1) : highWeightNumbers(sel, wts, m) = 0)
  ELSE LET total == TotalFrom(sel, wts, FALSE, 0) IN
         IF total <= 0 THEN FloorAvg37(seeds)
         ELSE LET n == DrawLoop(sel, wts, FALSE, 0, 0, total, p) IN
                IF n # -1 THEN Num(n) ELSE Num((p * 37) \div RandDen)

\* the classification of one stored bet against the winning number
Classify(stored, winningNumber) ==
  LET bet == NormalizeBet(stored) IN
    IF bet.t = "number" /\ winningNumber.t = "number" /\ bet.n = winningNumber.n THEN "WIN"
    ELSE IF bet = RedStr \/ bet = BlackStr
      THEN IF (bet = RedStr /\ isRed(winningNumber)) \/ (bet = BlackStr /\ isBlack(winningNumber))
             THEN "COLOR_ONLY" ELSE "LOSE"
    ELSE IF TypeOf(bet) = "number"
      THEN IF (isRed(bet) /\ isRed(winningNumber)) \/ (isBlack(bet) /\ isBlack(winningNumber))
             THEN "COLOR" ELSE "LOSE"
    ELSE "LOSE"

\* a results map that leaves out the cleared bets
ResultsOfBettors(sel, winningNumber) ==
  [sid \in {x \in DOMAIN sel : sel[x].bet # Null} |-> Classify(sel[sid].bet, winningNumber)]

\* results: one classification for every id in selections
Results(sel, winningNumber) ==
  [sid \in DOMAIN sel |-> Classify(sel[sid].bet, winningNumber)]

\* a guard of spin that forgets the lock
SpinAcceptedWhileSpinning(id) == IsDealer(id)

\* a guard of spin that forgets the dealer
SpinAcceptedByAnyone(id) == ~spinning

\* the guard of spin: the sender is the dealer and no spin is running
SpinAccepted(id) == IsDealer(id) /\ ~spinning

\* a spin that leaves the window as it is
CommitKeepingWindow(result) == [betsOpen |-> betsOpen, lastSpinResult |-> result]

\* betsOpen = false; lastSpinResult = { winningNumber, results }
Commit(result) == [betsOpen |-> FALSE, lastSpinResult |-> result]

\* socket.on("spin"); p is the numerator of Math.random().  On a payload that
\* is no array clientRandoms.reduce throws after the lock is set: the rest of
\* the handler, the setTimeout included, is not executed.
Spin(id, clientRandoms, p) ==
  /\ sockets[id] = "open"
  /\ IF ~SpinAccepted(id)
       THEN /\ emitted' = <<>>
            /\ UNCHANGED <<spinning, betsOpen, lastSpinResult, timers>>
       ELSE IF ~clientRandoms.isArray
         THEN /\ spinning' = TRUE
              /\ emitted' = <<>>
              /\ UNCHANGED <<betsOpen, lastSpinResult, timers>>
         ELSE \E winningNumber \in
                   {WinningNumber(selections, weightBySocket, clientRandoms.items, p)} :
              \E result \in {[isNull |-> FALSE,
                              winningNumber |-> winningNumber,
                              results |-> Results(selections, winningNumber)]} :
                /\ spinning' = TRUE
                /\ betsOpen' = Commit(result).betsOpen
                /\ lastSpinResult' = Commit(result).lastSpinResult
                /\ timers' = timers + 1
                /\ emitted' = <<SpinResultMsg(0, result, TRUE), BetsStateMsg(0, FALSE)>>
  /\ last' = [Handler("spin", id, Undefined, 0) EXCEPT !.randoms = clientRandoms, !.p = p]
  /\ UNCHANGED <<registry, usersStatus, sockets, socketData, connectedSockets, dealerSocket,
                 selections, weightBySocket>>

\* the setTimeout callback of spin, SPIN_ANIMATION_MS after it
SpinTimeout ==
  /\ timers > 0
  /\ spinning' = FALSE
  /\ timers' = timers - 1
  /\ emitted' = <<>>
  /\ last' = Handler("timeout", 0, Undefined, 0)
  /\ UNCHANGED <<registry, usersStatus, sockets, socketData, connectedSockets, dealerSocket,
                 betsOpen, selections, weightBySocket, lastSpinResult>>

(***************************************************************************)
(* The inputs the clients send.                                            *)
(***************************************************************************)
\* identifiers of join: the dealer's code, a player's code, an unknown code, a name
Identifiers == {Str(CodeDealer), Str(CodeAlice), Str(CodeNobody), Str(NameBob)}

\* codes of dealerLogin
LoginCodes == {Str(CodeDealer), Str(CodeAlice)}

\* bets of select: a number, a colour with blanks and capitals, null, the empty
\* string and a number off the wheel
Bets == {Num(17), Str(<<" ", "R", "e", "d">>), Null, Str(<<>>), Num(99)}

\* weights of setWeight: numbers and a string that is no number
Weights == {Num(0), Num(3), Str(<<"x">>)}

\* clientRandoms: the arrays of one number below 1, and a missing payload
SeedArrays == {Randoms(<<k>>) : k \in 0..(RandDen - 1)} \cup {NotAnArray}

\* one step of the server for inputs drawn from the sets of in
Step(in) ==
  \/ \E id \in Sockets : Connection(id)
  \/ \E id \in Sockets, identifier \in in.identifiers : Join(id, identifier)
  \/ \E id \in Sockets, target \in Sockets \cup {0}, weight \in in.weights :
       SetWeight(id, target, weight)
  \/ \E id \in Sockets, code \in in.codes : DealerLogin(id, code)
  \/ \E id \in Sockets : Disconnect(id)
  \/ \E id \in Sockets, bet \in in.bets : Select(id, bet)
  \/ \E id \in Sockets : OpenBets(id)
  \/ \E id \in Sockets : CloseBets(id)
  \/ \E id \in Sockets, seeds \in in.seeds, p \in in.randoms : Spin(id, seeds, p)
  \/ SpinTimeout

\* one step of the server without setWeight
StepBetting(in) ==
  \/ \E id \in Sockets : Connection(id)
  \/ \E id \in Sockets, identifier \in in.identifiers : Join(id, identifier)
  \/ \E id \in Sockets, code \in in.codes : DealerLogin(id, code)
  \/ \E id \in Sockets : Disconnect(id)
  \/ \E id \in Sockets, bet \in in.bets : Select(id, bet)
  \/ \E id \in Sockets : OpenBets(id)
  \/ \E id \in Sockets : CloseBets(id)
  \/ \E id \in Sockets, seeds \in in.seeds, p \in in.randoms : Spin(id, seeds, p)
  \/ SpinTimeout

\* the inputs of the dealer arbitration and dealer privilege scenarios
ArbitrationInputs ==
  [identifiers |-> {Str(CodeDealer)},
   codes |-> LoginCodes,
   bets |-> {Num(17)},
   weights |-> {Num(3)},
   seeds |-> {Randoms(<<1>>)},
   randoms |-> {0}]

\* the inputs of the bet submission scenarios
BettingInputs ==
  [identifiers |-> {Str(NameBob)},
   codes |-> {Str(CodeDealer)},
   bets |-> {Num(17), Null, Str(<<>>), Num(99)},
   weights |-> {},
   seeds |-> {Randoms(<<1>>)},
   randoms |-> {0}]

\* one step of the server without dealerLogin, closeBets and spin
StepBoard(in) ==
  \/ \E id \in Sockets : Connection(id)
  \/ \E id \in Sockets, identifier \in in.identifiers : Join(id, identifier)
  \/ \E id \in Sockets, target \in Sockets \cup {0}, weight \in in.weights :
       SetWeight(id, target, weight)
  \/ \E id \in Sockets : Disconnect(id)
  \/ \E id \in Sockets, bet \in in.bets : Select(id, bet)
  \/ \E id \in Sockets : OpenBets(id)

\* one step of the server without closeBets and spin
StepGuests(in) ==
  \/ \E id \in Sockets : Connection(id)
  \/ \E id \in Sockets, identifier \in in.identifiers : Join(id, identifier)
  \/ \E id \in Sockets, target \in Sockets \cup {0}, weight \in in.weights :
       SetWeight(id, target, weight)
  \/ \E id \in Sockets, code \in in.codes : DealerLogin(id, code)
  \/ \E id \in Sockets : Disconnect(id)
  \/ \E id \in Sockets, bet \in in.bets : Select(id, bet)
  \/ \E id \in Sockets : OpenBets(id)

\* The table of the outcome scenarios: the sockets 1..NumPlayers + 1 have
\* connected, socket 1 has joined with the dealer's code and the others with a
\* name, in this order; the dealer has opened the bets, the players of
\* in.bettors have placed bets, the dealer has set weights for them and has then
\* closed the bets.
TableSockets == 1..(NumPlayers + 1)

RECURSIVE TableConns(_)
\* connectedSockets after the joins of the sockets 1..n
TableConns(n) ==
  IF n = 0 THEN <<>>
  ELSE ObjSet(TableConns(n - 1), n,
              IF n = 1 THEN [name |-> Str(NameDealer), code |-> Str(CodeDealer)]
              ELSE [name |-> Str(NameBob), code |-> Null])

\* the ledgers of the players of P with bets of B
TableLedgers(P, B) ==
  UNION {[S -> {[name |-> Str(NameBob), bet |-> bet] : bet \in B}] : S \in SUBSET P}

\* the weight maps that give the sockets of T weights of W
TableWeights(T, W) == UNION {[S -> W] : S \in SUBSET T}

InitTable(in) ==
  /\ usersByCode = LoadUsersByCode(UsersFileWithDealer)
  /\ usersOrder = LoadUsersOrder(UsersFileWithDealer)
  /\ DEALER_CODE = DeriveDealerCode(UsersFileWithDealer)
  /\ usersStatus = [LoadUsersStatus(UsersFileWithDealer) EXCEPT
                      ![CodeDealer] = [connected |-> TRUE, socketId |-> 1]]
  /\ sockets = [id \in TableSockets |-> "open"]
  /\ socketData = [id \in TableSockets |->
                     IF id = 1 THEN [name |-> Str(NameDealer), code |-> Str(CodeDealer)]
                     ELSE [name |-> Str(NameBob), code |-> Undefined]]
  /\ connectedSockets = TableConns(NumPlayers + 1)
  /\ dealerSocket = 1
  /\ betsOpen = FALSE
  /\ selections \in TableLedgers(in.bettors, in.bets)
  /\ weightBySocket \in TableWeights(in.bettors, {ClampWeight(ToNumber(w).n) : w \in in.weights})
  /\ lastSpinResult = NoResult
  /\ spinning = FALSE
  /\ timers = 0
  /\ emitted = <<BetsStateMsg(0, FALSE)>>
  /\ last = [Handler("closeBets", 1, Undefined, 0) EXCEPT !.before.betsOpen = TRUE]

\* one step of the server at the table once the bets are placed: the dealer
\* asks for spins
StepTable(in) ==
  \/ \E id \in {1}, seeds \in in.seeds, p \in in.randoms : Spin(id, seeds, p)
  \/ SpinTimeout

\* the inputs of the outcome scenarios: two bettors, numbers and colours, a
\* cleared bet, a number off the wheel, a high weight and the weight 0, seeds
\* 0.5, 1 and none, Math.random() 0 and 0.6
OutcomeInputs ==
  [identifiers |-> {},
   codes |-> {},
   bettors |-> {2, 3},
   bets |-> {Num(5), Num(17), Num(3), RedStr, BlackStr, Null, Num(99)},
   weights |-> {Num(3), Num(0)},
   seeds |-> {Randoms(<<RandDen \div 2>>), Randoms(<<RandDen>>), Randoms(<<>>)},
   randoms |-> {0, (6 * RandDen) \div 10}]

\* the inputs of the normal-rule scenarios: every player bets, on 0, on a
\* number or on a colour, with weight 0 or the default weight
NormalInputs ==
  [identifiers |-> {},
   codes |-> {},
   bettors |-> TableSockets \ {1},
   bets |-> {Num(0), Num(5), RedStr, BlackStr},
   weights |-> {Num(0)},
   seeds |-> {Randoms(<<RandDen \div 2>>), Randoms(<<RandDen \div 5, RandDen - 1>>)},
   randoms |-> {0, (6 * RandDen) \div 10}]

\* the inputs of the leaderboard scenarios: two registered codes, one of them
\* unknown to the file without a dealer, and a name
BoardInputs ==
  [identifiers |-> {Str(CodeDealer), Str(CodeAlice), Str(NameBob)},
   codes |-> {},
   bets |-> {Num(17)},
   weights |-> {Num(3)},
   seeds |-> {},
   randoms |-> {}]

\* the inputs of the guest scenarios: two names that a case-sensitive order
\* and a case-insensitive order place differently, and a code no file knows
GuestInputs ==
  [identifiers |-> {Str(NameBob), Str(NameAlice), Str(CodeNobody)},
   codes |-> {Str(CodeDealer)},
   bets |-> {Num(17)},
   weights |-> {Num(3)},
   seeds |-> {},
   randoms |-> {}]

\* the inputs of the weight scenarios: a weight above the range, a numeric
\* string, a string that is no number and null
BiasInputs ==
  [identifiers |-> {Str(CodeDealer)},
   codes |-> {},
   bets |-> {Num(17)},
   weights |-> {Num(12), Str(<<"7">>), Str(<<"x">>), Null},
   seeds |-> {},
   randoms |-> {}]

\* the inputs of the spin lock scenarios: spin with and without an array
LockInputs ==
  [identifiers |-> {Str(NameBob)},
   codes |-> {Str(CodeDealer)},
   bets |-> {Num(17)},
   weights |-> {},
   seeds |-> {Randoms(<<1>>), NotAnArray},
   randoms |-> {0}]

Next == Step(ArbitrationInputs)

Spec == Init /\ [][Next]_vars

NextBetting == StepBetting(BettingInputs)

SpecBetting == Init /\ [][NextBetting]_vars

NextOutcome == StepTable(OutcomeInputs)

SpecOutcome == InitTable(OutcomeInputs) /\ [][NextOutcome]_vars

NextBoard == StepBoard(BoardInputs)

SpecBoard == Init /\ [][NextBoard]_vars

NextBias == StepBoard(BiasInputs)

SpecBias == Init /\ [][NextBias]_vars

NextGuests == StepGuests(GuestInputs)

SpecGuests == Init /\ [][NextGuests]_vars

NextNormal == StepTable(NormalInputs)

SpecNormal == InitTable(NormalInputs) /\ [][NextNormal]_vars

NextLock == StepBetting(LockInputs)

\* a pending setTimeout callback runs once its delay is over
SpecLock == Init /\ [][NextLock]_vars /\ WF_vars(SpinTimeout)

(***************************************************************************)
(* Dealer arbitration.                                                     *)
(***************************************************************************)
\* the handler was a dealer claim: a join or a dealerLogin
IsClaim == last.op \in {"join", "dealerLogin"}

\* the claim was made with the designated dealer code while the slot was empty
ClaimSucceeds ==
  IsClaim /\ Truthy(DEALER_CODE) /\ last.arg = DEALER_CODE /\ last.before.dealerSocket = 0

\* C1: the dealer slot is empty or holds one socket id, and a join or a
\* dealerLogin issued while the slot is held leaves the holder unchanged
\* (first claim wins, no pre-emption).
C1_FirstClaimWins ==
  /\ dealerSocket \in Sockets \cup {0}
  /\ (IsClaim /\ last.before.dealerSocket # 0) => dealerSocket = last.before.dealerSocket

\* a second socket joined with the dealer code while the slot was held
C1_Witness ==
  /\ last.op = "join"
  /\ last.arg = DEALER_CODE
  /\ last.before.dealerSocket # 0
  /\ last.before.dealerSocket # last.id
  /\ dealerSocket = last.before.dealerSocket

\* C2: the slot goes from empty to held by c exactly when c issues join or
\* dealerLogin with the designated dealer code while the slot is empty; every
\* other claim leaves slot, window and ledger unchanged, and no other handler
\* fills the slot.
C2_GrantExactlyOnClaim ==
  /\ (last.before.dealerSocket = 0 /\ dealerSocket # 0) => ClaimSucceeds
  /\ ClaimSucceeds => dealerSocket = last.id
  /\ (IsClaim /\ ~ClaimSucceeds) =>
       /\ dealerSocket = last.before.dealerSocket
       /\ betsOpen = last.before.betsOpen
       /\ selections = last.before.selections

\* a dealerLogin with the dealer code filled the empty slot
C2_Witness ==
  /\ last.op = "dealerLogin"
  /\ last.arg = DEALER_CODE
  /\ last.before.dealerSocket = 0
  /\ dealerSocket = last.id

\* C3: the socket that holds the dealer slot has no bet in the ledger.
C3_DealerHoldsNoBet == dealerSocket # 0 => dealerSocket \notin DOMAIN selections

\* C9: disconnect(c) empties the slot and closes the window if c holds the
\* slot, and leaves both unchanged otherwise.
C9_DisconnectReleases ==
  last.op = "disconnect" =>
    IF last.id = last.before.dealerSocket
      THEN dealerSocket = 0 /\ ~betsOpen
      ELSE dealerSocket = last.before.dealerSocket /\ betsOpen = last.before.betsOpen

\* the dealer left while the window was open
C9_Witness ==
  /\ last.op = "disconnect"
  /\ last.id = last.before.dealerSocket
  /\ last.before.betsOpen
  /\ dealerSocket = 0
  /\ ~betsOpen

(***************************************************************************)
(* Bet submission.                                                         *)
(***************************************************************************)
\* C4: a select issued while the window is closed leaves the ledger unchanged
\* and emits no leaderboard.
C4_SelectWhileClosed ==
  (last.op = "select" /\ ~last.before.betsOpen) =>
    /\ selections = last.before.selections
    /\ \A i \in 1..Len(emitted) : emitted[i].ev # "leaderboard"

\* a socket with a bet in the ledger submitted another value while the window
\* was closed
C4_Witness ==
  /\ last.op = "select"
  /\ ~last.before.betsOpen
  /\ last.id \in DOMAIN selections
  /\ selections[last.id].bet # last.arg

\* an accepted bet shape: a number 0..36 or a numeric string for one, red or
\* black after trim and case-fold, null or empty
AcceptedShape(bet) ==
  \/ bet \in {Null, Undefined, Str(<<>>)}
  \/ IsNumericBet(NormalizeBet(bet))
  \/ NormalizeBet(bet) \in {RedStr, BlackStr}

\* C5: a select is accepted only for an accepted bet shape, so every ledger
\* entry is a number 0..36, red, black or none.
C5_LedgerHoldsAcceptedShapes ==
  \A sid \in DOMAIN selections : AcceptedShape(selections[sid].bet)

\* C6: after select(null) or select(empty) the socket has no bet: its
\* leaderboard row shows null and no bettor list of the next spin holds it.
C6_ClearedBetIsNoBet ==
  \A sid \in DOMAIN selections :
    selections[sid].bet \in {Null, Str(<<>>)} =>
      /\ \A n \in 0..36 : sid \notin bettorsByNumber(selections, n)
      /\ sid \notin bettorsByColor(selections, RedStr)
      /\ sid \notin bettorsByColor(selections, BlackStr)
      /\ LiveRow(selections[sid].name, sid, selections, weightBySocket).bet = Null

(***************************************************************************)
(* The spin lock.                                                          *)
(***************************************************************************)
\* C11: while the lock is held a spin request changes nothing and broadcasts
\* nothing, whoever the dealer is and whatever the window is; a spin that
\* produces a result takes the lock, and only the guard timer gives it back.
C11_SpinWhileLockedIsNoOp ==
  /\ (last.op = "spin" /\ last.before.spinning) => (Engine = last.before /\ emitted = <<>>)
  /\ (last.op = "spin" /\ emitted # <<>>) => (~last.before.spinning /\ spinning)
  /\ (last.before.spinning /\ ~spinning) => last.op = "timeout"
  /\ timers <= 1

\* the dealer asked for a spin while the lock was held and the window was
\* open again
C11_Witness ==
  /\ last.op = "spin"
  /\ last.id = last.before.dealerSocket
  /\ last.before.spinning
  /\ last.before.betsOpen
  /\ ~last.before.lastSpinResult.isNull
  /\ timers = 1
  /\ lastSpinResult = last.before.lastSpinResult

\* C12: a lock that was set is eventually cleared by the guard timer.
C12_LockEventuallyReleased == spinning ~> ~spinning

(***************************************************************************)
(* The outcome engine.                                                     *)
(***************************************************************************)
\* the handler was a spin that produced a result
SpinDone == last.op = "spin" /\ emitted # <<>>

\* C13: the winning number of the retained result is an integer in 0..36.
C13_WinningNumberOnWheel ==
  ~lastSpinResult.isNull =>
    /\ lastSpinResult.winningNumber.t = "number"
    /\ lastSpinResult.winningNumber.n \in 0..36

\* every entry of the ledger is a cleared bet
OnlyClearedBets(sel) == \A sid \in DOMAIN sel : sel[sid].bet = Null

\* C14: when the ledger holds no numeric and no colour bet at an accepted
\* spin, the winning number is floor(mean(seeds) * 37) whatever the weights and
\* Math.random() are; spin([0.5]) yields 18.
C14_NoBetsFallback ==
  (SpinDone /\ OnlyClearedBets(last.before.selections)) =>
    LET items == last.randoms.items IN
      /\ items # <<>> =>
           lastSpinResult.winningNumber = Num((SeqSum(items) * 37) \div (Len(items) * RandDen))
      /\ items = <<>> => lastSpinResult.winningNumber = NaN
      /\ (Len(items) = 1 /\ 2 * items[1] = RandDen) => lastSpinResult.winningNumber = Num(18)

\* spin([0.5]) on a ledger of cleared entries, a high weight and
\* Math.random() = 0.6 gave 18
C14_Witness ==
  /\ SpinDone
  /\ DOMAIN last.before.selections # {}
  /\ OnlyClearedBets(last.before.selections)
  /\ \E sid \in DOMAIN last.before.selections : WeightOf(weightBySocket, sid) >= 2
  /\ Len(last.randoms.items) = 1
  /\ 2 * last.randoms.items[1] = RandDen
  /\ last.p # 0
  /\ lastSpinResult.winningNumber = Num(18)

\* the bet covers the number n of the wheel
Covers(bet, n) ==
  \/ bet.t = "number" /\ bet.n = n
  \/ bet = RedStr /\ n \in RedNumbers
  \/ bet = BlackStr /\ n \in (1..36) \ RedNumbers

\* the bettors of weight >= 2
HighBettors(sel, wts) ==
  {sid \in DOMAIN sel : WeightOf(wts, sid) >= 2 /\ \E n \in 0..36 : Covers(sel[sid].bet, n)}

\* C15: if some bettor has weight >= 2 at an accepted spin, the winning
\* number is covered by a bettor of weight >= 2; for the ledger {A: 5, B: red}
\* with weights {A: 3, B: 1} it is neither black nor 0.
C15_HighWeightOverride ==
  (SpinDone /\ HighBettors(last.before.selections, weightBySocket) # {}) =>
    /\ lastSpinResult.winningNumber.t = "number"
    /\ \E sid \in HighBettors(last.before.selections, weightBySocket) :
         Covers(last.before.selections[sid].bet, lastSpinResult.winningNumber.n)
    /\ (\E a, b \in DOMAIN selections :
          /\ DOMAIN selections = {a, b}
          /\ selections[a].bet = Num(5) /\ WeightOf(weightBySocket, a) = 3
          /\ selections[b].bet = RedStr /\ WeightOf(weightBySocket, b) = 1)
        => lastSpinResult.winningNumber.n \in RedNumbers

\* the ledger {A: 5, B: red} with weights {A: 3, B: 1} and Math.random() = 0.6
\* gave 5
C15_Witness ==
  /\ SpinDone
  /\ last.p # 0
  /\ \E a, b \in DOMAIN selections :
       /\ DOMAIN selections = {a, b}
       /\ selections[a].bet = Num(5) /\ WeightOf(weightBySocket, a) = 3
       /\ selections[b].bet = RedStr /\ WeightOf(weightBySocket, b) = 1
  /\ lastSpinResult.winningNumber = Num(5)

\* the colour of a winning number: 0 and values off the wheel have none
ColourOf(w) ==
  IF w.t = "number" /\ w.n \in RedNumbers THEN "red"
  ELSE IF w.t = "number" /\ w.n \in (1..36) \ RedNumbers THEN "black"
  ELSE "none"

\* the classification of a bet on the wheel, a colour bet or a cleared bet
Classification(bet, w) ==
  IF bet.t = "number"
    THEN IF bet = w THEN "WIN"
         ELSE IF ColourOf(bet) # "none" /\ ColourOf(bet) = ColourOf(w) THEN "COLOR"
         ELSE "LOSE"
  ELSE IF bet = RedStr THEN (IF ColourOf(w) = "red" THEN "COLOR_ONLY" ELSE "LOSE")
  ELSE IF bet = BlackStr THEN (IF ColourOf(w) = "black" THEN "COLOR_ONLY" ELSE "LOSE")
  ELSE "LOSE"

\* a number on the wheel, a colour or a cleared bet
OnWheel(bet) == (bet.t = "number" /\ bet.n \in 0..36) \/ bet \in {RedStr, BlackStr, Null}

\* every such entry of the ledger has the classification of the rule
ClassifiedByRule ==
  /\ DOMAIN lastSpinResult.results = DOMAIN last.before.selections
  /\ \A sid \in {x \in DOMAIN last.before.selections : OnWheel(last.before.selections[x].bet)} :
       LET bet == last.before.selections[sid].bet
           w == lastSpinResult.winningNumber
       IN  /\ lastSpinResult.results[sid] = Classification(bet, w)
           /\ (w = Num(0) /\ bet # Num(0)) => lastSpinResult.results[sid] = "LOSE"
           /\ bet = Num(0) => lastSpinResult.results[sid] # "COLOR"

\* the ledger is {A: 17, B: black} and the winning number is 17
Example17(a, b) ==
  /\ DOMAIN last.before.selections = {a, b}
  /\ last.before.selections[a].bet = Num(17)
  /\ last.before.selections[b].bet = BlackStr
  /\ lastSpinResult.winningNumber = Num(17)

CoverersOf(sel, n) == {sid \in DOMAIN sel : Covers(sel[sid].bet, n)}

\* the bettors of the ledger
Bettors(sel) == {sid \in DOMAIN sel : \E n \in 0..36 : Covers(sel[sid].bet, n)}

\* the number of bettors of weight >= 2 that cover n
HighCover(sel, wts, n) == Cardinality(CoverersOf(sel, n) \cap HighBettors(sel, wts))

RECURSIVE WeightSum(_, _)
WeightSum(S, wts) ==
  IF S = {} THEN 0
  ELSE LET sid == CHOOSE x \in S : TRUE IN WeightOf(wts, sid) + WeightSum(S \ {sid}, wts)

\* the draw weight of n under the normal rule
NormalCover(sel, wts, n) ==
  IF CoverersOf(sel, n) = {} THEN 1
  ELSE IF \A sid \in CoverersOf(sel, n) : WeightOf(wts, sid) = 0 THEN 0
  ELSE 1 + WeightSum(CoverersOf(sel, n), wts)

RECURSIVE Cum(_, _)
\* w[0] + ... + w[n]
Cum(w, n) == IF n < 0 THEN 0 ELSE w[n] + Cum(w, n - 1)

\* winner is the first number, in ascending order, whose cumulative share of
\* the weights w reaches p / RandDen; with positiveOnly only the numbers of
\* positive weight take part in the draw
DrawnBy(w, p, positiveOnly, winner) ==
  \E cum \in {[n \in 0..36 |-> Cum(w, n)]} :
    LET hit(n) == (positiveOnly => w[n] > 0) /\ p * cum[36] <= RandDen * cum[n]
    IN  winner \in 0..36 /\ hit(winner) /\ \A m \in 0..(winner - 1) : ~hit(m)

\* the high-weight rule applies to the ledger the handler started from
HighRule == HighBettors(last.before.selections, weightBySocket) # {}

\* the normal rule applies: a bettor, and no bettor of weight >= 2
NormalRule ==
  /\ Bettors(last.before.selections) # {}
  /\ HighBettors(last.before.selections, weightBySocket) = {}

\* C25: under the high-weight override the draw weight of n is the number
\* of bettors of weight >= 2 that cover n, and the winning number is the first
\* covered number, in ascending order, whose cumulative share reaches
\* Math.random().
C25_HighWeightDraw ==
  HighRule =>
    \E w \in {[n \in 0..36 |-> HighCover(last.before.selections, weightBySocket, n)]} :
      /\ \A n \in 0..36 : highWeightNumbers(last.before.selections, weightBySocket, n) = w[n]
      /\ SpinDone =>
           /\ lastSpinResult.winningNumber.t = "number"
           /\ DrawnBy(w, last.p, TRUE, lastSpinResult.winningNumber.n)

\* two bettors of weight >= 2 cover one number, and the draw went past the
\* first covered number
C25_Witness ==
  /\ SpinDone
  /\ HighRule
  /\ \E n \in 0..36 : HighCover(last.before.selections, weightBySocket, n) = 2
  /\ \E n \in 0..36 :
       /\ HighCover(last.before.selections, weightBySocket, n) > 0
       /\ n < lastSpinResult.winningNumber.n

\* C26: if exactly one bettor has weight >= 2 and bets the number n, the
\* winning number is n and that bettor is classified WIN.
C26_SingleHighBettorWins ==
  SpinDone =>
    \A a \in DOMAIN last.before.selections :
      (/\ HighBettors(last.before.selections, weightBySocket) = {a}
       /\ last.before.selections[a].bet.t = "number") =>
        /\ lastSpinResult.winningNumber = last.before.selections[a].bet
        /\ lastSpinResult.results[a] = "WIN"

\* one bettor of weight >= 2 on a number, another bettor of weight 0 on
\* another number, Math.random() = 0.6
C26_Witness ==
  /\ SpinDone
  /\ last.p # 0
  /\ \E a, b \in DOMAIN last.before.selections :
       /\ HighBettors(last.before.selections, weightBySocket) = {a}
       /\ last.before.selections[a].bet.t = "number"
       /\ last.before.selections[b].bet.t = "number"
       /\ last.before.selections[b].bet # last.before.selections[a].bet
       /\ WeightOf(weightBySocket, b) = 0
       /\ lastSpinResult.results[a] = "WIN"

\* C27: under the normal rule the draw weight of n is 1 if no bettor covers
\* n, 0 if every bettor that covers n has weight 0, and otherwise 1 plus the
\* sum of the weights of the bettors that cover n; the winning number is drawn
\* by these weights.
C27_NormalWeights ==
  NormalRule =>
    \E w \in {[n \in 0..36 |-> NormalCover(last.before.selections, weightBySocket, n)]} :
      /\ \A n \in 0..36 : NormalWeight(last.before.selections, weightBySocket, n) = w[n]
      /\ (SpinDone /\ Cum(w, 36) > 0) =>
           /\ lastSpinResult.winningNumber.t = "number"
           /\ DrawnBy(w, last.p, FALSE, lastSpinResult.winningNumber.n)

\* a spin under the normal rule with an excluded number, a boosted number and
\* an unbet number
C27_Witness ==
  /\ SpinDone
  /\ NormalRule
  /\ \E n \in 0..36 : NormalCover(last.before.selections, weightBySocket, n) = 0
  /\ \E n \in 0..36 : NormalCover(last.before.selections, weightBySocket, n) = 2
  /\ \E n \in 0..36 : CoverersOf(last.before.selections, n) = {}
  /\ lastSpinResult.winningNumber.n > 0

\* C28: under the normal rule with a positive total the winning number has
\* a positive draw weight.
C28_ExcludedNeverWins ==
  (SpinDone /\ NormalRule) =>
    \E w \in {[n \in 0..36 |-> NormalCover(last.before.selections, weightBySocket, n)]} :
      Cum(w, 36) > 0 =>
        /\ lastSpinResult.winningNumber.t = "number"
        /\ lastSpinResult.winningNumber.n \in 0..36
        /\ w[lastSpinResult.winningNumber.n] > 0

\* C29: under the normal rule, when every number is excluded the winning
\* number is floor(mean(seeds) * 37).
C29_DegenerateFallback ==
  (SpinDone /\ NormalRule) =>
    \E w \in {[n \in 0..36 |-> NormalCover(last.before.selections, weightBySocket, n)]} :
      (Cum(w, 36) <= 0 /\ last.randoms.items # <<>>) =>
        lastSpinResult.winningNumber =
          Num((SeqSum(last.randoms.items) * 37) \div (Len(last.randoms.items) * RandDen))

\* zero-weight bettors on 0, on red and on black, and spin([0.5]) gave 18
C29_Witness ==
  /\ SpinDone
  /\ NormalRule
  /\ \A n \in 0..36 : NormalCover(last.before.selections, weightBySocket, n) = 0
  /\ last.randoms.items = <<RandDen \div 2>>
  /\ lastSpinResult.winningNumber = Num((37 * (RandDen \div 2)) \div RandDen)

\* the seed arrays of the outcome scenarios
OtherSeeds == {r.items : r \in OutcomeInputs.seeds}

\* C30: with a bettor in the ledger and a draw that is not degenerate, the
\* spin run again from the same state with the same Math.random() and any
\* other seed array gives the same winning number and the same
\* classifications.
C30_SeedsDoNotMatter ==
  (/\ SpinDone
   /\ Bettors(last.before.selections) # {}
   /\ \/ HighRule
      \/ \E w \in {[n \in 0..36 |-> NormalCover(last.before.selections, weightBySocket, n)]} :
           Cum(w, 36) > 0) =>
    \A seeds \in OtherSeeds :
      \E again \in {WinningNumber(last.before.selections, weightBySocket, seeds, last.p)} :
        /\ again = lastSpinResult.winningNumber
        /\ \A sid \in DOMAIN last.before.selections :
             Classify(last.before.selections[sid].bet, again) = lastSpinResult.results[sid]

\* a spin under the normal rule with seeds whose fallback value is another
\* number than the one drawn
C30_Witness ==
  /\ SpinDone
  /\ NormalRule
  /\ last.randoms.items # <<>>
  /\ lastSpinResult.winningNumber.t = "number"
  /\ lastSpinResult.winningNumber.n \in 0..36
  /\ lastSpinResult.winningNumber # FloorAvg37(last.randoms.items)

(***************************************************************************)
(* The outcome map.                                                        *)
(***************************************************************************)
\* C31: the outcome map of a spin has an entry for exactly the connections
\* that have a ledger entry when the spin runs; a connection with a cleared
\* bet is classified LOSE; no disconnected connection has a ledger entry.
C31_ResultsFollowLedger ==
  /\ \A sid \in DOMAIN selections : sockets[sid] = "open"
  /\ SpinDone =>
       /\ DOMAIN lastSpinResult.results = DOMAIN last.before.selections
       /\ \A sid \in DOMAIN last.before.selections :
            last.before.selections[sid].bet = Null => lastSpinResult.results[sid] = "LOSE"

\* a spin with a cleared bet in the ledger, while the dealer has no entry
C31_Witness ==
  /\ SpinDone
  /\ last.id \notin DOMAIN lastSpinResult.results
  /\ \E sid \in DOMAIN last.before.selections :
       /\ last.before.selections[sid].bet = Null
       /\ lastSpinResult.results[sid] = "LOSE"

(***************************************************************************)
(* The leaderboard.                                                        *)
(***************************************************************************)
\* the leaderboards the handler broadcast
Boards == {emitted[k].board : k \in {j \in 1..Len(emitted) : emitted[j].ev = "leaderboard"}}

\* the row belongs to a connected socket that is not bound to a registered code
IsGuestRow(row) ==
  /\ row.key.sid # 0
  /\ ObjHas(connectedSockets, row.key.sid)
  /\ LET code == ObjGet(connectedSockets, row.key.sid).code IN
        ~(Truthy(code) /\ code.s \in DOMAIN usersByCode)

\* C17: every leaderboard has one row for each registered user, in load
\* order, and after them only guest rows.
C17_RegisteredRowsOnce ==
  \A board \in Boards :
    /\ Len(board) >= Len(usersOrder)
    /\ \A i \in 1..Len(usersOrder) :
         /\ board[i].val.name = Str(usersByCode[usersOrder[i]])
         /\ board[i].key = CodeKey(usersOrder[i]) \/ board[i].key.sid # 0
    /\ \A i \in (Len(usersOrder) + 1)..Len(board) : IsGuestRow(board[i])

\* the socket is bound to a registered code
BoundCode(id) ==
  Truthy(socketData[id].code) /\ socketData[id].code.s \in DOMAIN usersByCode

\* C18: the leaderboard broadcast by disconnect(c) has no row for c; if c was
\* bound to a registered code it has that user's row under the per-code key,
\* with connected false, bet null and weight null.
C18_DisconnectLeavesRow ==
  last.op = "disconnect" =>
    /\ Boards # {}
    /\ \A board \in Boards :
         /\ \A i \in 1..Len(board) : board[i].key # SidKey(last.id)
         /\ BoundCode(last.id) =>
              \E i \in 1..Len(board) :
                /\ board[i].key = CodeKey(socketData[last.id].code.s)
                /\ board[i].val =
                     [name |-> Str(usersByCode[socketData[last.id].code.s]),
                      bet |-> Null, connected |-> FALSE, weight |-> Null]

\* a registered player with a bet and a weight disconnected
C18_Witness ==
  /\ last.op = "disconnect"
  /\ BoundCode(last.id)
  /\ last.id \in DOMAIN last.before.selections
  /\ last.id \in DOMAIN weightBySocket
  /\ \E board \in Boards : \E i \in 1..Len(board) :
       /\ board[i].key = CodeKey(socketData[last.id].code.s)
       /\ ~board[i].val.connected

\* the bet and the weight a row shows for the connection sid
ShownBet(sid) == IF sid \in DOMAIN selections THEN selections[sid].bet ELSE Null

ShownWeight(sid) == IF sid \in DOMAIN weightBySocket THEN Num(weightBySocket[sid]) ELSE Num(1)

\* the registered user's active connection id is set and is a live connection
HasLiveActive(code) ==
  /\ usersStatus[code].connected
  /\ usersStatus[code].socketId # 0
  /\ sockets[usersStatus[code].socketId] = "open"

\* the board has, under key, a row that shows connected, bet and weight
HasRow(board, key, connected, bet, weight) ==
  \E i \in 1..Len(board) :
    /\ board[i].key = key
    /\ board[i].val.connected = connected
    /\ board[i].val.bet = bet
    /\ board[i].val.weight = weight

\* C32: in every leaderboard a registered user with a live active
\* connection has the row keyed by that connection id, connected, with the
\* connection's bet (null if none) and weight (1 if none); a registered user
\* without one has the row keyed by the per-code key, not connected, with bet
\* null and weight null.
C32_RegisteredRowContent ==
  \A board \in Boards : \A code \in DOMAIN usersByCode :
    IF HasLiveActive(code)
      THEN /\ HasRow(board, SidKey(usersStatus[code].socketId), TRUE,
                     ShownBet(usersStatus[code].socketId),
                     ShownWeight(usersStatus[code].socketId))
           /\ \A i \in 1..Len(board) : board[i].key # CodeKey(code)
      ELSE HasRow(board, CodeKey(code), FALSE, Null, Null)

\* a leaderboard with a registered user off line and another one connected
\* with a bet and a weight that is not the default
C32_Witness ==
  \E board \in Boards : \E on, off \in DOMAIN usersByCode :
    /\ ~HasLiveActive(off)
    /\ HasLiveActive(on)
    /\ usersStatus[on].socketId \in DOMAIN selections
    /\ usersStatus[on].socketId \in DOMAIN weightBySocket
    /\ HasRow(board, SidKey(usersStatus[on].socketId), TRUE, Num(17), Num(3))
    /\ HasRow(board, CodeKey(off), FALSE, Null, Null)

\* C33: in every leaderboard the rows of the guests come after all other
\* rows, are ordered by display name compared without regard to case, and
\* each guest has one row, connected, with its bet and its weight.
C33_GuestRows ==
  \A board \in Boards :
    /\ \A i, j \in 1..Len(board) :
         (IsGuestRow(board[i]) /\ ~IsGuestRow(board[j])) => j < i
    /\ \A i, j \in 1..Len(board) :
         (IsGuestRow(board[i]) /\ IsGuestRow(board[j]) /\ i < j) =>
           ~StrLess(ToLowerCase(board[j].val.name.s), ToLowerCase(board[i].val.name.s))
    /\ \A sid \in Sockets :
         (sockets[sid] = "open" /\ ObjHas(connectedSockets, sid) /\ ~BoundCode(sid)) =>
           /\ Cardinality({i \in 1..Len(board) : board[i].key = SidKey(sid)}) = 1
           /\ \E i \in 1..Len(board) :
                /\ board[i].key = SidKey(sid)
                /\ board[i].val =
                     [name |-> socketData[sid].name, bet |-> ShownBet(sid),
                      connected |-> TRUE, weight |-> ShownWeight(sid)]

\* a leaderboard with two guests: the one that joined second is first by
\* name only when capitals are folded, one has a bet and one has a weight
C33_Witness ==
  \E board \in Boards :
    /\ Len(board) >= 2
    /\ IsGuestRow(board[Len(board) - 1])
    /\ IsGuestRow(board[Len(board)])
    /\ board[Len(board) - 1].val.name = Str(NameAlice)
    /\ board[Len(board)].val.name = Str(NameBob)
    /\ board[Len(board) - 1].key.sid > board[Len(board)].key.sid
    /\ board[Len(board) - 1].val.bet = Num(17)
    /\ board[Len(board)].val.weight = Num(3)

\* what the leaderboard is composed from
ComposeInputs == <<usersStatus, connectedSockets, selections, weightBySocket>>

\* the step is a handler that has to broadcast the leaderboard: it changes an
\* input of the composition, or it is a join, a disconnect, an accepted select
\* or an accepted setWeight
MustBroadcast ==
  \/ ComposeInputs' # ComposeInputs
  \/ last'.op \in {"join", "disconnect"}
  \/ last'.op = "select" /\ betsOpen /\ last'.id # dealerSocket
  \/ /\ last'.op = "setWeight"
     /\ last'.id = dealerSocket
     /\ ToNumber(last'.arg) # NaN
     /\ last'.target # 0
     /\ ObjHas(connectedSockets, last'.target)

\* C34: every handler that changes an input of the composition, and every
\* join, disconnect, accepted select and accepted setWeight, broadcasts as its
\* last message the leaderboard composed from the state it ends in.
C34_BroadcastFollowsCommit ==
  [][MustBroadcast =>
       /\ emitted' # <<>>
       /\ emitted'[Len(emitted')] =
            LeaderboardMsg(Compose(usersOrder', usersByCode', usersStatus', connectedSockets',
                                   selections', weightBySocket'))]_vars

\* an accepted select has just put a bet in the ledger and the broadcast
\* leaderboard shows it
C34_Witness ==
  /\ last.op = "select"
  /\ last.id \in DOMAIN selections
  /\ last.id \notin DOMAIN last.before.selections
  /\ \E board \in Boards : HasRow(board, SidKey(last.id), TRUE, selections[last.id].bet,
                                   ShownWeight(last.id))

(***************************************************************************)
(* Identity binding and user status.                                       *)
(***************************************************************************)
\* the connection carries no code: neither socket.data nor its entry in
\* connectedSockets holds one
CarriesNoCode(id) ==
  /\ ~Truthy(socketData[id].code)
  /\ ObjGet(connectedSockets, id).code = Null

\* C35: after join(c, identifier): for a 6-digit code the registry resolves,
\* c is bound to that user's name and code and the user's status is
\* connected with c as active connection; for a 6-digit code that does not
\* resolve, c is named Unknown and carries no code; for any other identifier,
\* c is named identifier and carries no code.
C35_JoinBinds ==
  last.op = "join" =>
    /\ ObjHas(connectedSockets, last.id)
    /\ IF TypeOf(last.arg) = "string" /\ IsSixDigits(last.arg.s)
         THEN IF last.arg.s \in DOMAIN usersByCode
                THEN /\ socketData[last.id] =
                          [name |-> Str(usersByCode[last.arg.s]), code |-> last.arg]
                     /\ ObjGet(connectedSockets, last.id) =
                          [name |-> Str(usersByCode[last.arg.s]), code |-> last.arg]
                     /\ usersStatus[last.arg.s] = [connected |-> TRUE, socketId |-> last.id]
                ELSE /\ socketData[last.id].name = Str(NameUnknown)
                     /\ ObjGet(connectedSockets, last.id).name = Str(NameUnknown)
                     /\ CarriesNoCode(last.id)
         ELSE /\ socketData[last.id].name = last.arg
              /\ ObjGet(connectedSockets, last.id).name = last.arg
              /\ CarriesNoCode(last.id)

\* the connection is live and has joined
Joined(id) == sockets[id] = "open" /\ ObjHas(connectedSockets, id)

\* the live, joined connections bound to the code
BoundTo(code) == {id \in Sockets : Joined(id) /\ socketData[id].code = Str(code)}

\* C36: a registered user's status is connected exactly if a live connection
\* is bound to the user's code, and the active connection id, when set, is a
\* live connection bound to that code.
C36_StatusFollowsConnections ==
  \A code \in DOMAIN usersByCode :
    /\ usersStatus[code].connected <=> BoundTo(code) # {}
    /\ usersStatus[code].socketId # 0 => usersStatus[code].socketId \in BoundTo(code)

\* C37: the dealer slot, when not empty, holds a connection that has not
\* disconnected; a handler that fills or empties the slot broadcasts the new
\* dealer presence, and every dealer presence a handler sends is whether the
\* slot is held when the handler ends.
C37_DealerSlotLive ==
  /\ dealerSocket # 0 => sockets[dealerSocket] = "open"
  /\ (dealerSocket # 0) # (last.before.dealerSocket # 0) =>
       \E k \in 1..Len(emitted) : emitted[k] = DealerStateMsg(0, dealerSocket # 0)
  /\ \A k \in 1..Len(emitted) :
       emitted[k].ev = "dealerState" => emitted[k].flag = (dealerSocket # 0)

\* the dealer has disconnected while another connection is live
C37_Witness ==
  /\ last.op = "disconnect"
  /\ last.before.dealerSocket = last.id
  /\ dealerSocket = 0
  /\ \E id \in Sockets : sockets[id] = "open"
  /\ \E k \in 1..Len(emitted) : emitted[k] = DealerStateMsg(0, FALSE)

\* the leaderboard composed from the current state
Board ==
  Compose(usersOrder, usersByCode, usersStatus, connectedSockets, selections, weightBySocket)

\* C38: every live connection that has joined has exactly one row, keyed by
\* its connection id, in the composed leaderboard.
C38_EveryConnectionHasRow ==
  \A id \in Sockets :
    Joined(id) => Cardinality({i \in 1..Len(Board) : Board[i].key = SidKey(id)}) = 1

\* C39: every connection with a ledger entry is a live connection that has
\* joined and has a leaderboard row that shows the bet.
C39_EveryBetIsVisible ==
  \A sid \in DOMAIN selections :
    /\ Joined(sid)
    /\ \E i \in 1..Len(Board) :
         /\ Board[i].key = SidKey(sid)
         /\ Board[i].val.bet = selections[sid].bet

(***************************************************************************)
(* The ledger and the retained result across handlers.                     *)
(***************************************************************************)
\* the ledger entry of sid is not what it was before the handler
EntryChanged(sid) ==
  \/ (sid \in DOMAIN selections) # (sid \in DOMAIN last.before.selections)
  \/ /\ sid \in DOMAIN selections
     /\ sid \in DOMAIN last.before.selections
     /\ selections[sid] # last.before.selections[sid]

\* C22: the ledger entry of a connection changes only in that connection's
\* own accepted select, which writes it, or in its own disconnect, which
\* removes it; a spin classifies every entry of the ledger.
C22_LedgerFrame ==
  /\ \A sid \in Sockets :
       EntryChanged(sid) =>
         /\ last.id = sid
         /\ \/ /\ last.op = "select"
               /\ last.before.betsOpen
               /\ sid # last.before.dealerSocket
               /\ sid \in DOMAIN selections
               /\ selections[sid].bet = last.arg
            \/ last.op = "disconnect" /\ sid \notin DOMAIN selections
  /\ (last.op = "spin" /\ emitted # <<>>) =>
       DOMAIN lastSpinResult.results = DOMAIN selections

\* a bet that was classified by one spin was classified again by the next
C22_Witness ==
  /\ last.op = "spin"
  /\ emitted # <<>>
  /\ ~last.before.lastSpinResult.isNull
  /\ \E sid \in DOMAIN selections :
       /\ sid \in DOMAIN last.before.lastSpinResult.results
       /\ sid \in DOMAIN lastSpinResult.results

\* the handler was a spin by the dealer, with an array, while the lock was free
SpinWentOn ==
  /\ last.op = "spin"
  /\ last.id = last.before.dealerSocket
  /\ ~last.before.spinning
  /\ last.randoms.isArray

C24_ResultFrame ==
  /\ lastSpinResult # last.before.lastSpinResult =>
       /\ last.op = "spin"
       /\ last.id = last.before.dealerSocket
       /\ ~last.before.spinning
  /\ ~last.before.lastSpinResult.isNull => ~lastSpinResult.isNull

\* the dealer disconnected during the guard interval and the result stayed
C24_Witness ==
  /\ last.op = "disconnect"
  /\ last.id = last.before.dealerSocket
  /\ spinning
  /\ ~lastSpinResult.isNull
  /\ lastSpinResult = last.before.lastSpinResult

(***************************************************************************)
(* The weight map.                                                         *)
(***************************************************************************)
\* a number, or a string that spells one
IsNumeric(v) ==
  \/ v.t = "number"
  \/ v.t = "string" /\ Trim(v.s) # <<>> /\ \A i \in 1..Len(Trim(v.s)) : IsDigit(Trim(v.s)[i])

\* C21: setWeight by the dealer with a numeric weight and a joined target
\* stores the weight clamped to 0..10 for the target and nothing else; any
\* other setWeight leaves the weight map unchanged; every stored weight is in
\* 0..10.
C21_SetBiasClamps ==
  /\ \A sid \in DOMAIN weightBySocket : weightBySocket[sid] \in 0..10
  /\ last.op = "setWeight" =>
       IF /\ last.id = last.before.dealerSocket
          /\ IsNumeric(last.arg)
          /\ last.target # 0
          /\ ObjHas(connectedSockets, last.target)
         THEN weightBySocket =
                MapSet(last.before.weightBySocket, last.target, ClampWeight(ToNumber(last.arg).n))
         ELSE weightBySocket = last.before.weightBySocket

(***************************************************************************)
(* The retained result and the broadcasts.                                 *)
(***************************************************************************)
\* the spinResult messages of the handler
SpinResults == {emitted[k] : k \in {j \in 1..Len(emitted) : emitted[j].ev = "spinResult"}}

\* C19: a join made after a spin result exists sends the joiner that result,
\* the one of the most recent spin, without the animate flag; a join made
\* before any result sends no spinResult; the animate flag is carried only by
\* the broadcast of the spin that produced the result.
C19_JoinDeliversLastResult ==
  /\ last.op = "join" =>
       IF last.before.lastSpinResult.isNull
         THEN SpinResults = {}
         ELSE /\ SpinResults # {}
              /\ \A m \in SpinResults :
                   m.to = last.id /\ m.result = last.before.lastSpinResult /\ ~m.flag
  /\ \A m \in SpinResults :
       m.flag => (last.op = "spin" /\ m.to = 0 /\ m.result = lastSpinResult)
  /\ lastSpinResult # last.before.lastSpinResult =>
       (last.op = "spin" /\ \E m \in SpinResults : m.flag /\ m.result = lastSpinResult)

\* a socket joined after a spin and got the stored result
C19_Witness ==
  /\ last.op = "join"
  /\ ~last.before.lastSpinResult.isNull
  /\ \E m \in SpinResults :
       m.to = last.id /\ m.result = lastSpinResult /\ ~m.flag

\* C20: a handler that changes the window state broadcasts a betsState
\* message with the new value.
C20_WindowChangeBroadcast ==
  betsOpen # last.before.betsOpen =>
    \E k \in 1..Len(emitted) : emitted[k] = BetsStateMsg(0, betsOpen)

(***************************************************************************)
(* Dealer privilege and the betting window.                                *)
(***************************************************************************)
\* C7: setWeight, openBets, closeBets and spin from a socket that does not
\* hold the dealer slot change nothing and emit nothing.
C7_NonDealerIgnored ==
  (last.op \in {"setWeight", "openBets", "closeBets", "spin"}
     /\ last.id # last.before.dealerSocket) =>
    Engine = last.before /\ emitted = <<>>

\* a socket other than the dealer asked for a spin while none was running
C7_Witness ==
  /\ last.op = "spin"
  /\ last.before.dealerSocket # 0
  /\ last.id # last.before.dealerSocket
  /\ ~last.before.spinning
  /\ Engine = last.before

\* C8: the window state changes only in openBets, closeBets, spin or
\* disconnect issued by the socket that holds the dealer slot.
C8_WindowChangedByDealerOnly ==
  betsOpen # last.before.betsOpen =>
    /\ last.id # 0
    /\ last.id = last.before.dealerSocket
    /\ last.op \in {"openBets", "closeBets", "spin", "disconnect"}

\* the dealer's spin closed the open window
C8_Witness ==
  /\ last.op = "spin"
  /\ last.id = last.before.dealerSocket
  /\ last.before.betsOpen
  /\ ~betsOpen

\* C10: the window is open only while the dealer slot is held, and it is
\* closed at the start.
C10_OpenWindowHasDealer ==
  /\ betsOpen => dealerSocket # 0
  /\ last.op = "start" => ~betsOpen

\* the window is open again after a spin
C10_Witness == betsOpen /\ dealerSocket # 0 /\ ~lastSpinResult.isNull

====
